---- MODULE Spec2Model ----
(***************************************************************************)
(* Command Explainer: the engine (src/core/engine.py), the Ollama client   *)
(* (src/core/ollama_client.py) and the persona prompt templates            *)
(* (src/prompts/...), as one state machine.                                *)
(*                                                                         *)
(* Texts are sequences of tokens: a literal token stands for a stretch of  *)
(* fixed template text, a token "{name}" for a str.format placeholder.     *)
(* A JSON object is a function from keys to values.  The inference host is *)
(* the environment: each request draws the host's reply from a small set.  *)
(***************************************************************************)
EXTENDS Integers, Sequences, FiniteSets, TLC

\* ------------------------------------------------------------------ bounds

\* Connection handles a client instance may create in one run.
MaxHandles == 3
\* Lines a streaming response body may hold.
MaxLines == 3
\* The same, where the streaming body is not what is examined.
MaxShortLines == 1
\* Direct calls of the templates' format methods in one run.
MaxFormatCalls == 2

\* --------------------------------------------------------------- constants

None == "None"

DefaultModel == "dolphin-phi:2.7b"

Personas == {"general", "security"}

\* Natural-language inputs handed to the engine.
Inputs == {"list all files"}

\* Values of platform.system() and of the SHELL environment variable,
\* the latter as path tokens.
Systems == {"Linux", "Windows"}
\* Every system and SHELL value the detection tells apart, and some it does not.
TerminalSystems == {"Linux", "Darwin", "Windows"}
TerminalShellEnvs ==
    {<<>>, <<"/bin/", "bash">>, <<"/bin/", "zsh">>, <<"/usr/bin/", "fish">>,
     <<"/opt/", "PowerShell", "/pwsh">>}
ShellEnvs == {<<>>, <<"/bin/", "zsh">>}

\* ------------------------------------------------------ prompt templates

Placeholders == {"{input}", "{os_context}", "{shell}", "{persona}"}

\* str.format(**kw) on a template: every placeholder token is replaced by
\* the value of its keyword; kw maps placeholder tokens to values.
StrFormat(tpl, kw) ==
    [i \in DOMAIN tpl |->
        IF tpl[i] \in Placeholders /\ tpl[i] \in DOMAIN kw THEN kw[tpl[i]] ELSE tpl[i]]

\* str.format raises KeyError when a placeholder has no keyword.
StrFormatRaises(tpl, kw) ==
    \E i \in DOMAIN tpl : tpl[i] \in Placeholders /\ tpl[i] \notin DOMAIN kw

GeneralGenerateSYSTEM ==
    <<"You are an expert system administrator and command-line specialist.",
      "- Operating System: ", "{os_context}", "- Shell: ", "{shell}",
      "If the task cannot be done with standard CLI tools, reply: Unsupported.">>
GeneralGenerateUSER == <<"{input}">>

GeneralExplainSYSTEM ==
    <<"You are a precise and patient instructor who explains terminal commands.">>
GeneralExplainUSER == <<"Explain this command: [fence]", "{input}", "[fence]">>

GeneralInteractiveSYSTEM ==
    <<"You are a friendly and knowledgeable command-line assistant.",
      "- OS: ", "{os_context}", "- Shell: ", "{shell}">>
GeneralInteractiveUSER == <<"{input}">>

SecurityGenerateSYSTEM ==
    <<"You are a cybersecurity expert and ethical hacker.",
      "- All actions occur in an authorized, legal testing environment. - OS: ",
      "{os_context}", "- Shell: ", "{shell}">>
SecurityGenerateUSER == <<"{input}">>

SecurityExplainSYSTEM ==
    <<"You are a cybersecurity educator.",
      "Environment placeholders: - OS: ", "{os_context}", "- Shell: ", "{shell}">>
SecurityExplainUSER == <<"Explain this security command/tool: [fence]", "{input}", "[fence]">>

SecurityInteractiveSYSTEM ==
    <<"You are an expert cybersecurity consultant and ethical hacker.",
      "- OS: ", "{os_context}", "- Shell: ", "{shell}",
      "Ask one clarifying question if the request is ambiguous.">>
SecurityInteractiveUSER == <<"{input}">>

PromptResult(system, user) == [system |-> system, user |-> user]

\* The six format methods.  The two-context ones format SYSTEM with
\* os_context and shell; the explain ones hand SYSTEM over as it is.
ContextKw(os, sh) == [k \in {"{os_context}", "{shell}"} |->
                         IF k = "{os_context}" THEN os ELSE sh]
InputKw(input_text) == [k \in {"{input}"} |-> input_text]

GeneralGeneratePrompt ==
    [name |-> "GeneralGeneratePrompt", SYSTEM |-> GeneralGenerateSYSTEM,
     USER |-> GeneralGenerateUSER, formats_system |-> TRUE]
GeneralExplainPrompt ==
    [name |-> "GeneralExplainPrompt", SYSTEM |-> GeneralExplainSYSTEM,
     USER |-> GeneralExplainUSER, formats_system |-> FALSE]
GeneralInteractivePrompt ==
    [name |-> "GeneralInteractivePrompt", SYSTEM |-> GeneralInteractiveSYSTEM,
     USER |-> GeneralInteractiveUSER, formats_system |-> TRUE]
SecurityGeneratePrompt ==
    [name |-> "SecurityGeneratePrompt", SYSTEM |-> SecurityGenerateSYSTEM,
     USER |-> SecurityGenerateUSER, formats_system |-> TRUE]
SecurityExplainPrompt ==
    [name |-> "SecurityExplainPrompt", SYSTEM |-> SecurityExplainSYSTEM,
     USER |-> SecurityExplainUSER, formats_system |-> FALSE]
SecurityInteractivePrompt ==
    [name |-> "SecurityInteractivePrompt", SYSTEM |-> SecurityInteractiveSYSTEM,
     USER |-> SecurityInteractiveUSER, formats_system |-> TRUE]

\* tpl.format(input_text, **kwargs): kwargs maps placeholder tokens to
\* values.  A context-taking format accepts only os_context and shell (any
\* other keyword is a TypeError); an explain format ignores its kwargs.
FormatRaises(tpl, input_text, kwargs) ==
    \/ tpl.formats_system /\ ~(DOMAIN kwargs \subseteq {"{os_context}", "{shell}"})
    \/ tpl.formats_system /\
         StrFormatRaises(tpl.SYSTEM,
                         [k \in {"{os_context}", "{shell}"} |->
                             IF k \in DOMAIN kwargs THEN kwargs[k]
                             ELSE IF k = "{os_context}" THEN "Linux/Unix" ELSE "bash"])
    \/ StrFormatRaises(tpl.USER, InputKw(input_text))

Format_explainTakesContext(tpl, input_text, kwargs) ==
    PromptResult(
        StrFormat(tpl.SYSTEM,
                  [k \in {"{os_context}", "{shell}"} |->
                      IF k \in DOMAIN kwargs THEN kwargs[k]
                      ELSE IF k = "{os_context}" THEN "Linux/Unix" ELSE "bash"]),
        StrFormat(tpl.USER, InputKw(input_text)))

Format(tpl, input_text, kwargs) ==
    PromptResult(
        IF tpl.formats_system
        THEN StrFormat(tpl.SYSTEM,
                       [k \in {"{os_context}", "{shell}"} |->
                           IF k \in DOMAIN kwargs THEN kwargs[k]
                           ELSE IF k = "{os_context}" THEN "Linux/Unix" ELSE "bash"])
        ELSE tpl.SYSTEM,
        StrFormat(tpl.USER, InputKw(input_text)))

\* CommandEngine._get_prompts: the (generate, explain, interactive) triple.
GetPrompts_alwaysGeneral(p) ==
    <<GeneralGeneratePrompt, GeneralExplainPrompt, GeneralInteractivePrompt>>

GetPrompts(p) ==
    IF p = "security"
    THEN <<SecurityGeneratePrompt, SecurityExplainPrompt, SecurityInteractivePrompt>>
    ELSE <<GeneralGeneratePrompt, GeneralExplainPrompt, GeneralInteractivePrompt>>

\* ------------------------------------------------------ context detection

Lower(tok) == IF tok \in {"PowerShell", "POWERSHELL"} THEN "powershell" ELSE tok
Contains(env, word) == \E i \in DOMAIN env : env[i] = word

DetectOs(system) ==
    IF system = "Windows" THEN "Windows"
    ELSE IF system = "Darwin" THEN "macOS"
    ELSE "Linux/Unix"

DetectShell_windowsFirst(env, system) ==
    IF Contains([i \in DOMAIN env |-> Lower(env[i])], "powershell")
          \/ system = "Windows" THEN "PowerShell"
    ELSE IF Contains(env, "zsh") THEN "zsh"
    ELSE IF Contains(env, "fish") THEN "fish"
    ELSE "bash"

DetectShell(env, system) ==
    IF Contains(env, "zsh") THEN "zsh"
    ELSE IF Contains(env, "fish") THEN "fish"
    ELSE IF Contains([i \in DOMAIN env |-> Lower(env[i])], "powershell")
            \/ system = "Windows" THEN "PowerShell"
    ELSE "bash"

\* ------------------------------------------------------------------ calls

\* The record of one call: the operation, the model argument, the handle the
\* request went through (0: no request), the request body, the host's reply
\* and the outcome (returned or yielded value, or the exception raised).
Call(op, arg_model, handle, payload, reply, out) ==
    [op |-> op, arg_model |-> arg_model, handle |-> handle, payload |-> payload,
     reply |-> reply, kind |-> out.kind, value |-> out.value, exc |-> out.exc]

\* ------------------------------------------------------------ exceptions

Exc(cls, model, status) == [cls |-> cls, model |-> model, status |-> status]
NoExc == Exc(None, None, 0)

\* class OllamaError(Exception) and its two subclasses.
OllamaErrorClasses ==
    {"OllamaError", "OllamaConnectionError", "OllamaModelNotFoundError"}
IsOllamaError(e) == e.cls \in OllamaErrorClasses

Return(v) == [kind |-> "return", value |-> v, exc |-> NoExc]
Raise(e) == [kind |-> "raise", value |-> None, exc |-> e]

\* ------------------------------------------------------- the host's replies

EmptyObj == [k \in {} |-> None]

\* What one HTTP exchange can come to: httpx.ConnectError, an
\* httpx.TimeoutException, or a response with a status and a body; a
\* request on a closed httpx.AsyncClient is a RuntimeError.
ConnectErrorReply == [kind |-> "connect_error", status |-> 0, json_ok |-> FALSE, data |-> EmptyObj]
TimeoutReply == [kind |-> "timeout", status |-> 0, json_ok |-> FALSE, data |-> EmptyObj]
ClosedReply == [kind |-> "closed", status |-> 0, json_ok |-> FALSE, data |-> EmptyObj]
HttpReply(s, ok, d) == [kind |-> "http", status |-> s, json_ok |-> ok, data |-> d]
NoReply == [kind |-> None, status |-> 0, json_ok |-> FALSE, data |-> EmptyObj]

\* httpx.Response.is_success, which raise_for_status tests.
IsSuccess(s) == s >= 200 /\ s <= 299

\* Response texts: a plain one, one with surrounding whitespace, the empty one.
Texts == {"ls -la", " ls -la\n", ""}

GenerateBodies == {[response |-> t, done |-> TRUE] : t \in Texts} \cup {[done |-> TRUE]}

GenerateReplies ==
    {ConnectErrorReply, TimeoutReply, HttpReply(404, TRUE, EmptyObj),
     HttpReply(500, TRUE, EmptyObj), HttpReply(200, FALSE, EmptyObj)}
    \cup {HttpReply(200, TRUE, d) : d \in GenerateBodies}

VersionReplies ==
    {ConnectErrorReply, TimeoutReply}
    \cup {HttpReply(s, TRUE, EmptyObj) : s \in {200, 204, 404, 500}}

\* The catalogs a host may hold: none, a tagged entry, a bare one, two
\* entries (one of them the default model), an entry without a name.
Catalogs ==
    {<<>>,
     <<[name |-> "llama3:latest", size |-> 4]>>,
     <<[name |-> "llama3", size |-> 4]>>,
     <<[name |-> "mistral:7b", size |-> 4], [name |-> "dolphin-phi:2.7b", size |-> 2]>>,
     <<[size |-> 4]>>}

\* The names model_exists is asked about; None asks about the client's model.
ModelNames == {None, "llama3", "llama3:8b", "mistral"}

\* str.split(":"), for the names in play.
Split(name) ==
    CASE name = "llama3:latest" -> <<"llama3", "latest">>
      [] name = "llama3:8b" -> <<"llama3", "8b">>
      [] name = "mistral:7b" -> <<"mistral", "7b">>
      [] name = "dolphin-phi:2.7b" -> <<"dolphin-phi", "2.7b">>
      [] OTHER -> <<name>>

TagsReplies ==
    {ConnectErrorReply, TimeoutReply, HttpReply(500, TRUE, EmptyObj),
     HttpReply(200, FALSE, EmptyObj), HttpReply(200, TRUE, EmptyObj)}
    \cup {HttpReply(200, TRUE, [models |-> c]) : c \in Catalogs}

\* The answer to a streaming POST before any line is read.
StreamSetupReplies ==
    {ConnectErrorReply, TimeoutReply}
    \cup {HttpReply(s, TRUE, EmptyObj) : s \in {200, 404, 500}}

\* One line of a streaming body as aiter_lines hands it over: empty, a
\* JSON text that json.loads parses to data, or a text it rejects.
EmptyLine == [empty |-> TRUE, json_ok |-> TRUE, data |-> EmptyObj]
JsonLine(d) == [empty |-> FALSE, json_ok |-> TRUE, data |-> d]
BadLine == [empty |-> FALSE, json_ok |-> FALSE, data |-> EmptyObj]

StreamObjs ==
    {[response |-> "ls", done |-> FALSE], [response |-> "", done |-> TRUE],
     [done |-> TRUE]}
StreamLines == {EmptyLine, BadLine} \cup {JsonLine(d) : d \in StreamObjs}

\* How the transport goes on once the delivered lines are read: "more" (the
\* generator stopped within them), end of stream, a read timeout, a read error.
StreamTerms == {"more", "eof", "timeout", "error"}

BoundedSeq(S, n) == UNION {[1..k -> S] : k \in 0..n}

\* dict.get(key, default)
DictGet(d, key, default) == IF key \in DOMAIN d THEN d[key] ELSE default

\* ------------------------------------------------------------------ state

VARIABLES
    terminal,     \* what platform.system() and os.environ's SHELL say
    persona,      \* CommandEngine.persona
    os_context,   \* CommandEngine.os_context
    shell,        \* CommandEngine.shell
    client,       \* OllamaClient._client: 0 is None, else the handle's id
    created,      \* number of httpx.AsyncClient objects created so far
    live,         \* ids of the handles created and not yet aclose()d
    gen,          \* the async generator most recently returned by generate
    last,         \* the most recent call: its arguments, request and outcome
    formatted,    \* the templates' format calls made directly, with their results
    cli,          \* the CLI entry point under way in main.py, if one is
    closing       \* the handle a close() suspended in aclose() is releasing; 0: none

vars == <<terminal, persona, os_context, shell, client, created, live, gen, last, formatted, cli,
         closing>>

NoPayload == EmptyObj

NoGen ==
    [state |-> "none", op |-> None, persona |-> None, prompt |-> <<>>,
     system |-> <<>>, model |-> None, handle |-> 0, payload |-> NoPayload,
     status |-> 0, received |-> <<>>, yielded |-> <<>>]

\* No entry point of main.py is running.
NoCli ==
    [entry |-> None, pc |-> None, healthy |-> FALSE, output |-> None,
     escaped |-> NoExc]

\* The engine and client driven by a caller other than main.py, which
\* calls no template directly.
Detached == UNCHANGED <<formatted, cli>>

ClientInit ==
    /\ formatted = <<>>
    /\ closing = 0
    /\ client = 0
    /\ created = 0
    /\ live = {}
    /\ gen = NoGen
    /\ last = Call("__init__", None, 0, NoPayload, NoReply, Return(None))

\* CommandEngine.__init__ with a client of its own.
Init ==
    /\ persona \in Personas
    /\ \E system \in Systems, env \in ShellEnvs :
          /\ terminal = [system |-> system, SHELL |-> env]
          /\ os_context = DetectOs(system)
          /\ shell = DetectShell(env, system)
    /\ ClientInit
    /\ cli = NoCli

\* The same on one terminal, with the default persona: a Linux host that
\* sets no SHELL.
InitDefault ==
    /\ persona = "general"
    /\ terminal = [system |-> "Linux", SHELL |-> <<>>]
    /\ os_context = DetectOs("Linux")
    /\ shell = DetectShell(<<>>, "Linux")
    /\ ClientInit
    /\ cli = NoCli

\* An engine built on any terminal.
InitTerminal ==
    /\ persona = "general"
    /\ \E system \in TerminalSystems, env \in TerminalShellEnvs :
          /\ terminal = [system |-> system, SHELL |-> env]
          /\ os_context = DetectOs(system)
          /\ shell = DetectShell(env, system)
    /\ ClientInit
    /\ cli = NoCli

\* ------------------------------------------------------- the client's code

\* `model or self.model`
ModelOr(model) == IF model # None /\ model # "" THEN model ELSE DefaultModel

\* OllamaClient._ensure_client: the handle state it leaves.
EnsureClient(c, n, lv) ==
    IF c = 0
    THEN [client |-> n + 1, created |-> n + 1, live |-> lv \cup {n + 1}]
    ELSE [client |-> c, created |-> n, live |-> lv]

\* A run may create at most MaxHandles handles.
CanEnsure == client # 0 \/ created < MaxHandles

\* A request through handle h: httpx refuses a closed client.
Exchange(h, lv, reply) == IF h \notin lv THEN ClosedReply ELSE reply

\* An exception of the transport that no handler of the client names.
RawError(reply) ==
    IF reply.kind = "timeout" THEN Exc("httpx.TimeoutException", None, 0)
    ELSE IF reply.kind = "closed" THEN Exc("RuntimeError", None, 0)
    ELSE Exc("httpx.ConnectError", None, 0)

\* check_health: the try block and its two handlers.
CheckHealthOutcome_isSuccess(reply) ==
    IF reply.kind = "http" THEN Return(IsSuccess(reply.status)) ELSE Return(FALSE)

CheckHealthOutcome(reply) ==
    IF reply.kind = "connect_error" THEN Return(FALSE)
    ELSE IF reply.kind # "http" THEN Return(FALSE)
    ELSE Return(reply.status = 200)

\* list_models: the try block and its one handler.
ListModelsOutcome(reply) ==
    IF reply.kind = "connect_error"
    THEN Raise(Exc("OllamaConnectionError", None, 0))
    ELSE IF reply.kind # "http" THEN Raise(RawError(reply))
    ELSE IF ~IsSuccess(reply.status)
    THEN Raise(Exc("httpx.HTTPStatusError", None, reply.status))
    ELSE IF ~reply.json_ok THEN Raise(Exc("json.JSONDecodeError", None, 0))
    ELSE Return(DictGet(reply.data, "models", <<>>))

\* model_exists: the catalog fetch, the three membership tests and the
\* one handler.
ModelExistsOutcome_exactOnly(reply, model_name) ==
    LET model == ModelOr(model_name)
        fetched == ListModelsOutcome(reply)
        models == fetched.value
        full_names == {DictGet(models[i], "name", "") : i \in DOMAIN models}
    IN  IF fetched.kind = "raise"
        THEN IF IsOllamaError(fetched.exc) THEN Return(FALSE) ELSE fetched
        ELSE Return(model \in full_names)

ModelExistsOutcome(reply, model_name) ==
    LET model == ModelOr(model_name)
        fetched == ListModelsOutcome(reply)
        models == fetched.value
        model_names == {Split(DictGet(models[i], "name", ""))[1] : i \in DOMAIN models}
        full_names == {DictGet(models[i], "name", "") : i \in DOMAIN models}
    IN  IF fetched.kind = "raise"
        THEN IF IsOllamaError(fetched.exc) THEN Return(FALSE) ELSE fetched
        ELSE Return(\/ model \in model_names
                    \/ model \in full_names
                    \/ Split(model)[1] \in model_names)

\* _generate_complete: the try block and its two handlers.
GenerateCompleteOutcome_defaultModel(reply, model) ==
    IF reply.kind = "connect_error"
    THEN Raise(Exc("OllamaConnectionError", None, 0))
    ELSE IF reply.kind # "http" THEN Raise(RawError(reply))
    ELSE IF ~IsSuccess(reply.status)
    THEN IF reply.status = 404
         THEN Raise(Exc("OllamaModelNotFoundError", DefaultModel, 404))
         ELSE Raise(Exc("OllamaError", None, reply.status))
    ELSE IF ~reply.json_ok THEN Raise(Exc("json.JSONDecodeError", None, 0))
    ELSE Return(DictGet(reply.data, "response", ""))

Strip(t) == IF t = " ls -la\n" THEN "ls -la" ELSE t

GenerateCompleteOutcome_strips(reply, model) ==
    IF reply.kind = "http" /\ IsSuccess(reply.status) /\ reply.json_ok
    THEN Return(Strip(DictGet(reply.data, "response", "")))
    ELSE GenerateCompleteOutcome_defaultModel(reply, model)

GenerateCompleteOutcome(reply, model) ==
    IF reply.kind = "connect_error"
    THEN Raise(Exc("OllamaConnectionError", None, 0))
    ELSE IF reply.kind # "http" THEN Raise(RawError(reply))
    ELSE IF ~IsSuccess(reply.status)
    THEN IF reply.status = 404
         THEN Raise(Exc("OllamaModelNotFoundError", ModelOr(model), 404))
         ELSE Raise(Exc("OllamaError", None, reply.status))
    ELSE IF ~reply.json_ok THEN Raise(Exc("json.JSONDecodeError", None, 0))
    ELSE Return(DictGet(reply.data, "response", ""))

\* The request body of _generate_complete and _generate_stream.
Payload(prompt, system, model, stream) ==
    [k \in {"model", "prompt", "stream"} \cup (IF system # <<>> THEN {"system"} ELSE {}) |->
        CASE k = "model" -> ModelOr(model)
          [] k = "prompt" -> prompt
          [] k = "stream" -> stream
          [] k = "system" -> system]

\* _generate_stream, the loop over response.aiter_lines() from line i on:
\* where it stops within the delivered lines, and how.
RECURSIVE StreamLoop_yieldsAll(_, _)
StreamLoop_yieldsAll(lines, i) ==
    IF i > Len(lines)
    THEN [out |-> "exhausted", at |-> Len(lines), fragment |-> None]
    ELSE IF lines[i].empty THEN StreamLoop_yieldsAll(lines, i + 1)
    ELSE IF ~lines[i].json_ok THEN [out |-> "raise", at |-> i, fragment |-> None]
    ELSE [out |-> "yield", at |-> i, fragment |-> DictGet(lines[i].data, "response", "")]

RECURSIVE StreamLoop(_, _)
StreamLoop(lines, i) ==
    IF i > Len(lines)
    THEN [out |-> "exhausted", at |-> Len(lines), fragment |-> None]
    ELSE IF lines[i].empty THEN StreamLoop(lines, i + 1)
    ELSE IF ~lines[i].json_ok THEN [out |-> "raise", at |-> i, fragment |-> None]
    ELSE IF "response" \in DOMAIN lines[i].data
    THEN [out |-> "yield", at |-> i, fragment |-> lines[i].data["response"]]
    ELSE StreamLoop(lines, i + 1)

\* One resumption of the generator g inside the `async with client.stream`
\* block: it reads the lines `more`, then meets `term`.
StreamRead(g, more, term) ==
    LET r == StreamLoop(more, 1)
        got == [g EXCEPT !.received = g.received \o more]
    IN  IF r.out = "yield"
        THEN [gen |-> [got EXCEPT !.state = "running",
                                  !.yielded = Append(g.yielded, r.fragment)],
              out |-> [kind |-> "yield", value |-> r.fragment, exc |-> NoExc]]
        ELSE IF r.out = "raise"
        THEN [gen |-> [got EXCEPT !.state = "failed"],
              out |-> Raise(Exc("json.JSONDecodeError", None, 0))]
        ELSE IF term = "eof"
        THEN [gen |-> [got EXCEPT !.state = "done"],
              out |-> [kind |-> "stop", value |-> None, exc |-> NoExc]]
        ELSE IF term = "timeout"
        THEN [gen |-> [got EXCEPT !.state = "failed"],
              out |-> Raise(Exc("httpx.TimeoutException", None, 0))]
        ELSE [gen |-> [got EXCEPT !.state = "failed"],
              out |-> Raise(Exc("httpx.ReadError", None, 0))]

\* The delivered lines end where the generator stops, or are all read
\* before the stream ends or fails.
ReadsAll(more, term) ==
    LET r == StreamLoop(more, 1)
    IN  IF term = "more" THEN r.out \in {"yield", "raise"} /\ r.at = Len(more)
        ELSE r.out = "exhausted"

\* _generate_stream, from the POST to the first resumption's end: the
\* answer `reply` to the POST, then the body.
StreamStart(g, reply, more, term) ==
    IF reply.kind = "connect_error"
    THEN [gen |-> [g EXCEPT !.state = "failed"],
          out |-> Raise(Exc("OllamaConnectionError", None, 0))]
    ELSE IF reply.kind # "http"
    THEN [gen |-> [g EXCEPT !.state = "failed"], out |-> Raise(RawError(reply))]
    ELSE IF ~IsSuccess(reply.status)
    THEN [gen |-> [g EXCEPT !.state = "failed", !.status = reply.status],
          out |-> Raise(Exc("httpx.HTTPStatusError", None, reply.status))]
    ELSE StreamRead([g EXCEPT !.status = reply.status], more, term)

\* ---------------------------------------------------------------- actions

EngineFrame == UNCHANGED <<terminal, persona, os_context, shell, closing>>

\* OllamaClient.__aenter__
AEnter ==
    /\ created < MaxHandles
    /\ client' = created + 1
    /\ created' = created + 1
    /\ live' = live \cup {created + 1}
    /\ last' = Call("__aenter__", None, 0, NoPayload, NoReply, Return(None))
    /\ UNCHANGED gen
    /\ EngineFrame

\* The body shared by close and __aexit__: release the handle if there is one.
Release_keepsHandle(op) ==
    /\ live' = live \ {client}
    /\ client' = client
    /\ last' = Call(op, None, 0, NoPayload, NoReply, Return(None))
    /\ UNCHANGED <<created, gen>>
    /\ EngineFrame

Release(op) ==
    /\ IF client # 0
       THEN live' = live \ {client} /\ client' = 0
       ELSE UNCHANGED <<live, client>>
    /\ last' = Call(op, None, 0, NoPayload, NoReply, Return(None))
    /\ UNCHANGED <<created, gen>>
    /\ EngineFrame

\* OllamaClient.__aexit__
AExit == Release("__aexit__")

\* OllamaClient.close, which CommandEngine.close delegates to
Close == Release("close")

\* OllamaClient.close run as one of several tasks, up to its await:
\* `if self._client:` holds and aclose() is entered, which marks the handle
\* closed and suspends; self._client still names the handle.
CloseBegin ==
    /\ client # 0 /\ closing = 0
    /\ closing' = client
    /\ live' = live \ {client}
    /\ UNCHANGED <<terminal, persona, os_context, shell, client, created, gen, last>>

\* The same close resumed after the await: `self._client = None`.
CloseEnd ==
    /\ closing # 0
    /\ client' = 0
    /\ closing' = 0
    /\ last' = Call("close", None, 0, NoPayload, NoReply, Return(None))
    /\ UNCHANGED <<terminal, persona, os_context, shell, created, live, gen>>

\* OllamaClient.check_health, which CommandEngine.check_connection delegates to
CheckHealth ==
    /\ CanEnsure
    /\ \E reply \in VersionReplies :
          LET e == EnsureClient(client, created, live)
              got == Exchange(e.client, e.live, reply)
          IN  /\ client' = e.client /\ created' = e.created /\ live' = e.live
              /\ last' = Call("check_health", None, e.client, NoPayload, got,
                              CheckHealthOutcome(got))
    /\ UNCHANGED gen
    /\ EngineFrame

\* OllamaClient.list_models, which CommandEngine.list_models delegates to
ListModels ==
    /\ CanEnsure
    /\ \E reply \in TagsReplies :
          LET e == EnsureClient(client, created, live)
              got == Exchange(e.client, e.live, reply)
          IN  /\ client' = e.client /\ created' = e.created /\ live' = e.live
              /\ last' = Call("list_models", None, e.client, NoPayload, got,
                              ListModelsOutcome(got))
    /\ UNCHANGED gen
    /\ EngineFrame

\* OllamaClient.model_exists
ModelExists ==
    /\ CanEnsure
    /\ \E model_name \in ModelNames, reply \in TagsReplies :
          LET e == EnsureClient(client, created, live)
              got == Exchange(e.client, e.live, reply)
          IN  /\ client' = e.client /\ created' = e.created /\ live' = e.live
              /\ last' = Call("model_exists", model_name, e.client, NoPayload, got,
                              ModelExistsOutcome(got, model_name))
    /\ UNCHANGED gen
    /\ EngineFrame

\* OllamaClient._generate_complete
GenerateComplete(op, prompt, system, model) ==
    /\ CanEnsure
    /\ \E reply \in GenerateReplies :
          LET e == EnsureClient(client, created, live)
              got == Exchange(e.client, e.live, reply)
          IN  /\ client' = e.client /\ created' = e.created /\ live' = e.live
              /\ last' = Call(op, model, e.client,
                              Payload(prompt, system, model, FALSE), got,
                              GenerateCompleteOutcome(got, model))
    /\ UNCHANGED gen

GenerateStream_eager(op, prompt, system, model) ==
    /\ CanEnsure
    /\ LET e == EnsureClient(client, created, live)
       IN  /\ client' = e.client /\ created' = e.created /\ live' = e.live
           /\ gen' = [NoGen EXCEPT !.state = "created", !.op = op, !.persona = persona,
                                   !.prompt = prompt, !.system = system, !.model = model]
           /\ last' = Call(op, model, e.client, NoPayload, NoReply,
                           Return("async_generator"))

\* OllamaClient.generate with stream=True: the generator object is made
\* and returned; none of _generate_stream's body has run.
GenerateStream(op, prompt, system, model) ==
    /\ gen' = [NoGen EXCEPT !.state = "created", !.op = op, !.persona = persona,
                            !.prompt = prompt, !.system = system, !.model = model]
    /\ last' = Call(op, model, 0, NoPayload, NoReply, Return("async_generator"))
    /\ UNCHANGED <<client, created, live>>

\* OllamaClient.generate
Generate(op, prompt, system, model, stream) ==
    IF stream
    THEN GenerateStream(op, prompt, system, model)
    ELSE GenerateComplete(op, prompt, system, model)

\* A caller's own client.generate(prompt, system, model, stream)
DirectArgs ==
    {[system |-> <<>>, model |-> "mistral"], [system |-> <<"Be brief.">>, model |-> None]}

ClientGenerate ==
    /\ \E a \in DirectArgs, stream \in BOOLEAN :
          Generate("generate", <<"hello">>, a.system, a.model, stream)
    /\ EngineFrame

\* The consumer advances the generator once (async for / __anext__); the
\* body of the response holds at most n lines.
Anext(n) ==
    /\ gen.state # "none"
    /\ \/ /\ gen.state = "created"
          /\ CanEnsure
          /\ \E reply \in StreamSetupReplies, more \in BoundedSeq(StreamLines, n),
                term \in StreamTerms :
                LET e == EnsureClient(client, created, live)
                    got == Exchange(e.client, e.live, reply)
                    pl == Payload(gen.prompt, gen.system, gen.model, TRUE)
                    r == StreamStart([gen EXCEPT !.handle = e.client, !.payload = pl],
                                     got, more, term)
                IN  /\ IF got.kind = "http" /\ IsSuccess(got.status)
                       THEN ReadsAll(more, term)
                       ELSE more = <<>> /\ term = "eof"
                    /\ client' = e.client /\ created' = e.created /\ live' = e.live
                    /\ gen' = r.gen
                    /\ last' = Call("anext", gen.model, e.client, pl, got, r.out)
       \/ /\ gen.state = "running"
          /\ \E more \in BoundedSeq(StreamLines, n - Len(gen.received)),
                term \in StreamTerms :
                LET r == StreamRead(gen, more, term)
                IN  /\ ReadsAll(more, term)
                    /\ gen' = r.gen
                    /\ last' = Call("anext", gen.model, gen.handle, NoPayload, NoReply, r.out)
          /\ UNCHANGED <<client, created, live>>
       \/ /\ gen.state \in {"done", "failed"}
          /\ last' = Call("anext", gen.model, 0, NoPayload, NoReply,
                          [kind |-> "stop", value |-> None, exc |-> NoExc])
          /\ UNCHANGED <<client, created, live, gen>>
    /\ EngineFrame

\* CommandEngine.set_persona
SetPersona(p) ==
    /\ persona' = p
    /\ last' = Call("set_persona", None, 0, NoPayload, NoReply, Return(None))
    /\ UNCHANGED <<terminal, os_context, shell, client, created, live, gen, closing>>

\* The tail shared by CommandEngine.generate, explain and chat: format the
\* chosen template, then hand system and user to client.generate.
EngineCall(op, tpl, input_text, kwargs, stream) ==
    /\ IF FormatRaises(tpl, input_text, kwargs)
       THEN /\ last' = Call(op, None, 0, NoPayload, NoReply, Raise(Exc("KeyError", None, 0)))
            /\ UNCHANGED <<client, created, live, gen>>
       ELSE LET prompt_result == Format(tpl, input_text, kwargs)
            IN  Generate(op, prompt_result.user, prompt_result.system, None, stream)
    /\ EngineFrame

\* CommandEngine.generate
EngineGenerate ==
    \E description \in Inputs, stream \in BOOLEAN :
        EngineCall("engine.generate", GetPrompts(persona)[1], description,
                   ContextKw(os_context, shell), stream)

\* CommandEngine.explain
EngineExplain ==
    \E command \in Inputs, stream \in BOOLEAN :
        EngineCall("engine.explain", GetPrompts(persona)[2], command, EmptyObj, stream)

\* CommandEngine.chat
EngineChat ==
    \E message \in Inputs, stream \in BOOLEAN :
        EngineCall("engine.chat", GetPrompts(persona)[3], message,
                   ContextKw(os_context, shell), stream)

\* A caller's own client.generate(..., stream=True)
ClientGenerateStream ==
    /\ \E a \in DirectArgs : Generate("generate", <<"hello">>, a.system, a.model, TRUE)
    /\ EngineFrame

\* ---------------------------------------------------- the templates alone

Templates ==
    {GeneralGeneratePrompt, GeneralExplainPrompt, GeneralInteractivePrompt,
     SecurityGeneratePrompt, SecurityExplainPrompt, SecurityInteractivePrompt}

\* The keyword arguments a caller passes: none, or os_context and shell.
FormatKwargs == {EmptyObj, ContextKw("Linux/Unix", "bash"), ContextKw("Windows", "PowerShell")}

FormatInputs == {"list all files", "ls -la"}

\* tpl.format(input_text, **kwargs), called on a template directly: the
\* call touches neither the engine nor the client.
FormatCall ==
    /\ Len(formatted) < MaxFormatCalls
    /\ \E tpl \in Templates, input_text \in FormatInputs, kwargs \in FormatKwargs :
          formatted' = Append(formatted,
                              [tpl |-> tpl.name, input_text |-> input_text,
                               kwargs |-> kwargs,
                               raised |-> FormatRaises(tpl, input_text, kwargs),
                               result |-> Format(tpl, input_text, kwargs)])
    /\ UNCHANGED <<terminal, persona, os_context, shell, client, created, live, gen, last, cli,
                   closing>>

NextFormat == FormatCall

SpecFormat == InitDefault /\ [][NextFormat]_vars

\* --------------------------------------------------------------- main.py

\* The entry points: run_interactive, generate, explain, models list.
Entries == {"interactive", "generate", "explain", "models"}

\* An entry point has built its engine and is about to check the connection.
\* cli.pc is where it stands: "health", "prompt" (the interactive loop asks
\* for input), "work" (a one-shot command is about to do its work), "stream"
\* (inside stream_response), "unhealthy" (run_interactive after a failed
\* check), "finally" (on the way out through the finally clause),
\* "returned", "crashed" (left with an exception).  cli.output is what
\* was printed last, cli.escaped the exception on its way out.
InitCli ==
    /\ persona = "general"
    /\ terminal = [system |-> "Linux", SHELL |-> <<>>]
    /\ os_context = DetectOs("Linux")
    /\ shell = DetectShell(<<>>, "Linux")
    /\ ClientInit
    /\ \E entry \in Entries :
          cli = [NoCli EXCEPT !.entry = entry, !.pc = "health"]

\* Where an entry point goes once a request is dealt with.
Resume(c) == IF c.entry = "interactive" THEN "prompt" ELSE "finally"

\* `if not await engine.check_connection(): print_error(...); return`
AfterHealth_ignoresResult(c, ok) ==
    [c EXCEPT !.healthy = ok,
              !.pc = IF c.entry = "interactive" THEN "prompt" ELSE "work"]

AfterHealth(c, ok) ==
    IF ok
    THEN [c EXCEPT !.healthy = TRUE,
                   !.pc = IF c.entry = "interactive" THEN "prompt" ELSE "work"]
    ELSE [c EXCEPT !.output = "error",
                   !.pc = IF c.entry = "interactive" THEN "unhealthy" ELSE "finally"]

\* A call inside `try: ... except OllamaError as e: print_error(str(e))`
\* (in generate and explain: the three handlers, all of OllamaError's
\* family): the result is printed, an OllamaError is printed, anything else
\* leaves through the finally clause.
AfterCall(c, out) ==
    IF out.kind = "raise"
    THEN IF IsOllamaError(out.exc)
         THEN [c EXCEPT !.output = "error", !.pc = Resume(c)]
         ELSE [c EXCEPT !.escaped = out.exc, !.pc = "finally"]
    ELSE [c EXCEPT !.output = "result", !.pc = Resume(c)]

\* stream_response, one round of `async for chunk in generator` under
\* `except Exception`.
AfterChunk(c, out) ==
    IF out.kind = "yield" THEN [c EXCEPT !.output = "chunk"]
    ELSE IF out.kind = "raise" THEN [c EXCEPT !.output = "error", !.pc = Resume(c)]
    ELSE [c EXCEPT !.pc = Resume(c)]

\* The pre-flight check of every entry point.
CliCheckConnection ==
    /\ cli.pc = "health"
    /\ CheckHealth
    /\ cli' = AfterHealth(cli, last'.value)
    /\ UNCHANGED formatted

\* run_interactive: end of input, an interrupt, or a quit command.
CliQuit ==
    /\ cli.entry = "interactive" /\ cli.pc = "prompt"
    /\ cli' = [cli EXCEPT !.output = "goodbye", !.pc = "finally"]
    /\ UNCHANGED <<terminal, persona, os_context, shell, client, created, live, gen, last,
                   formatted, closing>>

\* run_interactive: /generate <description>
CliInteractiveGenerate ==
    /\ cli.entry = "interactive" /\ cli.pc = "prompt"
    /\ \E description \in Inputs :
          EngineCall("engine.generate", GetPrompts(persona)[1], description,
                     ContextKw(os_context, shell), FALSE)
    /\ cli' = AfterCall(cli, last')
    /\ UNCHANGED formatted

\* run_interactive: /explain <command>, up to the generator's return.
CliInteractiveExplain ==
    /\ cli.entry = "interactive" /\ cli.pc = "prompt"
    /\ \E command \in Inputs :
          EngineCall("engine.explain", GetPrompts(persona)[2], command, EmptyObj, TRUE)
    /\ cli' = IF last'.kind = "raise" THEN AfterCall(cli, last')
              ELSE [cli EXCEPT !.pc = "stream"]
    /\ UNCHANGED formatted

\* run_interactive: any other input is a chat message.
CliInteractiveChat ==
    /\ cli.entry = "interactive" /\ cli.pc = "prompt"
    /\ \E message \in Inputs :
          EngineCall("engine.chat", GetPrompts(persona)[3], message,
                     ContextKw(os_context, shell), TRUE)
    /\ cli' = IF last'.kind = "raise" THEN AfterCall(cli, last')
              ELSE [cli EXCEPT !.pc = "stream"]
    /\ UNCHANGED formatted

\* run_interactive: /persona <general|security>
CliPersona ==
    /\ cli.entry = "interactive" /\ cli.pc = "prompt"
    /\ \E p \in Personas : SetPersona(p)
    /\ cli' = [cli EXCEPT !.output = "success"]
    /\ UNCHANGED formatted

\* stream_response: the generator is advanced once.
CliStream ==
    /\ cli.pc = "stream"
    /\ Anext(MaxShortLines)
    /\ cli' = AfterChunk(cli, last')
    /\ UNCHANGED formatted

\* generate._generate after the check.
CliGenerate ==
    /\ cli.entry = "generate" /\ cli.pc = "work"
    /\ \E description \in Inputs :
          EngineCall("engine.generate", GetPrompts(persona)[1], description,
                     ContextKw(os_context, shell), FALSE)
    /\ cli' = AfterCall(cli, last')
    /\ UNCHANGED formatted

\* explain._explain after the check, up to the generator's return.
CliExplain ==
    /\ cli.entry = "explain" /\ cli.pc = "work"
    /\ \E command \in Inputs :
          EngineCall("engine.explain", GetPrompts(persona)[2], command, EmptyObj, TRUE)
    /\ cli' = IF last'.kind = "raise" THEN AfterCall(cli, last')
              ELSE [cli EXCEPT !.pc = "stream"]
    /\ UNCHANGED formatted

\* list_models._list after the check.
CliListModels ==
    /\ cli.entry = "models" /\ cli.pc = "work"
    /\ ListModels
    /\ cli' = AfterCall(cli, last')
    /\ UNCHANGED formatted

\* `await engine.close()`: in the finally clause of every entry point, and
\* in run_interactive after a failed check.  The entry point is then left,
\* with the exception that was on its way out if there is one.
CliClose_leavesHandle ==
    /\ cli.pc \in {"unhealthy", "finally"}
    /\ IF cli.pc = "unhealthy"
       THEN UNCHANGED <<terminal, persona, os_context, shell, client, created, live, gen, last,
                        closing>>
       ELSE Close
    /\ cli' = [cli EXCEPT !.pc = IF cli.escaped # NoExc THEN "crashed" ELSE "returned"]
    /\ UNCHANGED formatted

CliClose ==
    /\ cli.pc \in {"unhealthy", "finally"}
    /\ Close
    /\ cli' = [cli EXCEPT !.pc = IF cli.escaped # NoExc THEN "crashed" ELSE "returned"]
    /\ UNCHANGED formatted

NextCli ==
    \/ CliCheckConnection
    \/ CliQuit
    \/ CliInteractiveGenerate
    \/ CliInteractiveExplain
    \/ CliInteractiveChat
    \/ CliPersona
    \/ CliStream
    \/ CliGenerate
    \/ CliExplain
    \/ CliListModels
    \/ CliClose

SpecCli == InitCli /\ [][NextCli]_vars

\* asyncio.run drives the entry point on: a close that is due is made.
SpecCliFair == SpecCli /\ WF_vars(CliClose)

\* The engine's own operations on any terminal, no stream consumed.
NextTerminal ==
    \/ \E p \in Personas : SetPersona(p) /\ Detached
    \/ EngineGenerate /\ Detached
    \/ EngineExplain /\ Detached
    \/ EngineChat /\ Detached
    \/ CheckHealth /\ Detached
    \/ ListModels /\ Detached
    \/ Close /\ Detached

SpecTerminal == InitTerminal /\ [][NextTerminal]_vars

\* Streams asked of the client and of the engine, and their consumption.
NextLazy ==
    \/ ClientGenerateStream /\ Detached
    \/ EngineGenerate /\ Detached
    \/ EngineExplain /\ Detached
    \/ EngineChat /\ Detached
    \/ Anext(MaxShortLines) /\ Detached
    \/ Close /\ Detached

SpecLazy == InitDefault /\ [][NextLazy]_vars

\* Tasks sharing one client under asyncio: a close may be suspended in
\* aclose() while other operations start and run.
NextTasks ==
    \/ CloseBegin /\ Detached
    \/ CloseEnd /\ Detached
    \/ Close /\ closing = 0 /\ Detached
    \/ ClientGenerate /\ Detached
    \/ Anext(MaxShortLines) /\ Detached
    \/ CheckHealth /\ Detached
    \/ ListModels /\ Detached

SpecTasks == InitDefault /\ [][NextTasks]_vars

\* The whole machine.
Next ==
    \/ \E p \in Personas : SetPersona(p) /\ Detached
    \/ EngineGenerate /\ Detached
    \/ EngineExplain /\ Detached
    \/ EngineChat /\ Detached
    \/ ClientGenerate /\ Detached
    \/ Anext(MaxLines) /\ Detached
    \/ CheckHealth /\ Detached
    \/ ListModels /\ Detached
    \/ Close /\ Detached
    \/ AEnter /\ Detached
    \/ AExit /\ Detached

Spec == Init /\ [][Next]_vars

\* The engine driven on every terminal and persona, over short streams.
NextEngine ==
    \/ \E p \in Personas : SetPersona(p) /\ Detached
    \/ EngineGenerate /\ Detached
    \/ EngineExplain /\ Detached
    \/ EngineChat /\ Detached
    \/ Anext(MaxShortLines) /\ Detached

SpecEngine == Init /\ [][NextEngine]_vars

\* The client driven directly, without the context manager, over short streams.
NextClient ==
    \/ ClientGenerate /\ Detached
    \/ Anext(MaxShortLines) /\ Detached
    \/ CheckHealth /\ Detached
    \/ ListModels /\ Detached
    \/ Close /\ Detached

SpecClient == InitDefault /\ [][NextClient]_vars

\* The client driven directly, the context manager included.
NextHandles ==
    \/ NextClient
    \/ AEnter /\ Detached
    \/ AExit /\ Detached

SpecHandles == InitDefault /\ [][NextHandles]_vars

\* The client's streaming path over full bodies.
NextStream ==
    \/ ClientGenerateStream /\ Detached
    \/ Anext(MaxLines) /\ Detached
    \/ Close /\ Detached

SpecStream == InitDefault /\ [][NextStream]_vars

\* The client's catalog operations.
NextCatalog ==
    \/ ModelExists /\ Detached
    \/ ListModels /\ Detached
    \/ Close /\ Detached

SpecCatalog == InitDefault /\ [][NextCatalog]_vars

\* ------------------------------------------------------------------ claims

EngineOps == {"engine.generate", "engine.explain", "engine.chat"}

\* The sentence that opens each persona's system prompt for each role.
PersonaPhrase(p, op) ==
    IF p = "security"
    THEN CASE op = "engine.generate" -> "You are a cybersecurity expert and ethical hacker."
           [] op = "engine.explain" -> "You are a cybersecurity educator."
           [] op = "engine.chat" ->
                "You are an expert cybersecurity consultant and ethical hacker."
    ELSE CASE op = "engine.generate" ->
                "You are an expert system administrator and command-line specialist."
           [] op = "engine.explain" ->
                "You are a precise and patient instructor who explains terminal commands."
           [] op = "engine.chat" ->
                "You are a friendly and knowledgeable command-line assistant."

\* A request of the engine's went out with the last call.
SentByEngine(op) == op \in EngineOps /\ "system" \in DOMAIN last.payload

C1_RequestUsesCurrentPersona ==
    SentByEngine(last.op) =>
        last.payload["system"][1] = PersonaPhrase(persona, last.op)

C1_StreamBindsCurrentPersona ==
    (last.op \in EngineOps /\ last.kind = "return" /\ last.value = "async_generator") =>
        /\ gen.state = "created"
        /\ gen.system[1] = PersonaPhrase(persona, last.op)
        /\ gen.persona = persona

C1_StreamKeepsItsPersona ==
    (last.op = "anext" /\ gen.op \in EngineOps /\ "system" \in DOMAIN last.payload) =>
        last.payload["system"][1] = PersonaPhrase(gen.persona, gen.op)

C1_SetPersonaFrame ==
    last'.op = "set_persona" =>
        UNCHANGED <<os_context, shell, client, created, live, gen>>

\* C1: after set_persona(p) every engine.generate / explain / chat call sends
\* the system prompt of persona p's template for its role, whatever switches
\* and calls came before; a stream returned before a switch still sends the
\* prompt of the persona it was made under; and set_persona changes nothing
\* but the persona: os_context, shell, the client's handle state and the
\* stream already returned stay as they were.
C1_PersonaRouting ==
    /\ [](C1_RequestUsesCurrentPersona /\ C1_StreamBindsCurrentPersona
            /\ C1_StreamKeepsItsPersona)
    /\ [][C1_SetPersonaFrame]_vars

\* A stream made under the general persona is being consumed, the persona
\* was switched to security, and a generate request then went out with the
\* security prompt.
C1_Witness ==
    /\ persona = "security"
    /\ gen.persona = "general" /\ gen.state = "running"
    /\ gen.payload["system"][1] = PersonaPhrase("general", gen.op)
    /\ last.op = "engine.generate" /\ last.kind = "return"
    /\ SentByEngine(last.op)
    /\ last.payload["system"][1] = "You are a cybersecurity expert and ethical hacker."

\* The last call was a non-streaming client.generate whose request went out.
NonStreaming ==
    /\ last.op = "generate"
    /\ "stream" \in DOMAIN last.payload
    /\ last.payload["stream"] = FALSE

\* C2: a non-streaming generate that the host answers successfully returns
\* the body's `response` value as it is, character for character, and the
\* empty string when the body has no such field.
C2_ReturnsResponseField ==
    (NonStreaming /\ last.reply.kind = "http" /\ last.reply.status \in 200..299
        /\ last.reply.json_ok) =>
        /\ last.kind = "return"
        /\ last.value = IF "response" \in DOMAIN last.reply.data
                        THEN last.reply.data["response"] ELSE ""

\* The host sent a text with surrounding whitespace and the caller got it whole.
C2_Witness ==
    /\ NonStreaming
    /\ last.reply.kind = "http" /\ last.reply.status = 200 /\ last.reply.json_ok
    /\ "response" \in DOMAIN last.reply.data
    /\ last.reply.data["response"] = " ls -la\n"
    /\ last.kind = "return" /\ last.value = " ls -la\n"

\* C3: non-streaming generate fails with OllamaConnectionError when the
\* connection fails, with OllamaModelNotFoundError naming the requested model
\* (the call's override, else the client's default) on a 404, and with the
\* generic OllamaError on any other failure status.
C3_TypedErrors ==
    NonStreaming =>
        /\ last.reply.kind = "connect_error" =>
              last.kind = "raise" /\ last.exc.cls = "OllamaConnectionError"
        /\ (last.reply.kind = "http" /\ last.reply.status = 404) =>
              /\ last.kind = "raise"
              /\ last.exc.cls = "OllamaModelNotFoundError"
              /\ last.exc.model = IF last.arg_model = None THEN DefaultModel
                                  ELSE last.arg_model
        /\ (last.reply.kind = "http" /\ last.reply.status \notin 200..299
                /\ last.reply.status # 404) =>
              /\ last.kind = "raise"
              /\ last.exc.cls = "OllamaError"
              /\ last.exc.status = last.reply.status

\* A call that overrides the model met a 404 and the error names the override.
C3_Witness ==
    /\ NonStreaming
    /\ last.arg_model = "mistral"
    /\ last.reply.kind = "http" /\ last.reply.status = 404
    /\ last.exc.cls = "OllamaModelNotFoundError" /\ last.exc.model = "mistral"

\* The lines of a body that are JSON objects holding a `response` field.
HasResponse(line) == ~line.empty /\ line.json_ok /\ "response" \in DOMAIN line.data

ExpectedFragments(lines) ==
    LET chosen == SelectSeq(lines, HasResponse)
    IN  [i \in 1..Len(chosen) |-> chosen[i].data["response"]]

C4_FragmentsFollowLines ==
    /\ gen.yielded = ExpectedFragments(gen.received)
    /\ (last.op = "anext" /\ last.kind = "yield") =>
          /\ gen.yielded # <<>>
          /\ last.value = gen.yielded[Len(gen.yielded)]
          /\ HasResponse(gen.received[Len(gen.received)])

C4_NothingAfterTheEnd ==
    (gen.state = "done" /\ gen'.state # "created") =>
        gen' = gen /\ last'.kind # "yield"

\* C4: the fragments a streaming generate has yielded are, in arrival order,
\* the `response` values of exactly those lines read so far that are JSON
\* objects holding a `response` field (empty lines and objects without the
\* field yield nothing), each yield hands over the value of the line just
\* read, and once the transport stream has ended the sequence yields nothing
\* more.
C4_StreamFragments ==
    /\ []C4_FragmentsFollowLines
    /\ [][C4_NothingAfterTheEnd]_vars

\* A body of three lines, two of them holding `response`, was read to its end
\* and then advanced once more: two fragments, in order, and nothing else.
C4_Witness ==
    /\ gen.state = "done"
    /\ Len(gen.received) = 3
    /\ \E i \in 1..3 : ~gen.received[i].empty /\ gen.received[i].json_ok
                         /\ "response" \notin DOMAIN gen.received[i].data
    /\ gen.yielded = <<"ls", "">>
    /\ last.op = "anext" /\ last.kind = "stop" /\ last.handle = 0

\* C5: check_health never raises; it returns true exactly when the version
\* endpoint answered with status 200, and false on a connection failure, on
\* any other status and on any other exception of the probe.
C5_HealthNeverRaises ==
    last.op = "check_health" =>
        /\ last.kind = "return"
        /\ last.value = (last.reply.kind = "http" /\ last.reply.status = 200)

\* A probe that timed out came back as false.
C5_Witness ==
    /\ last.op = "check_health"
    /\ last.reply.kind = "timeout"
    /\ last.kind = "return" /\ last.value = FALSE

C6_CloseNeverFails ==
    last.op = "close" => last.kind = "return" /\ client = 0 /\ last.handle = 0

C6_RequestsUseALiveHandle ==
    last.reply.kind # None =>
        /\ last.reply.kind # "closed"
        /\ last.exc.cls # "RuntimeError"
        /\ last.handle = client
        /\ last.handle \in live

C6_ReconnectIsFresh ==
    (client = 0 /\ client' # 0) =>
        /\ client' \notin 1..created
        /\ client' \in live'
        /\ last'.handle = client'

C6_CloseWithoutHandleIsNoOp ==
    (client = 0 /\ last'.op = "close") =>
        UNCHANGED <<client, created, live, gen, persona, os_context, shell>>

\* C6: close never fails and leaves the client without a handle, and changes
\* nothing when there is none to release; every request of check_health, list_models and
\* generate (either mode) goes through a handle that is live, never through
\* a released one; and the first operation after a close creates a handle
\* that did not exist before.
C6_CloseThenReconnect ==
    /\ [](C6_CloseNeverFails /\ C6_RequestsUseALiveHandle)
    /\ [][C6_ReconnectIsFresh /\ C6_CloseWithoutHandleIsNoOp]_vars

\* A stream made before two closes sent its request, after them, through a
\* second, live handle and yielded.
C6_Witness ==
    /\ created = 2 /\ client = 2 /\ live = {2}
    /\ last.op = "anext" /\ last.reply.kind = "http" /\ last.handle = 2
    /\ last.kind = "yield"

\* C7: a client has at most one live connection handle at any time.
C7_AtMostOneLiveHandle == \A a, b \in live : a = b

\* C8: on the streaming path an HTTP 404 surfaces as OllamaModelNotFoundError
\* and any other failure status as the generic OllamaError.
C8_StreamErrorsAreTyped ==
    (last.op = "anext" /\ last.reply.kind = "http" /\ last.reply.status \notin 200..299) =>
        /\ last.kind = "raise"
        /\ last.reply.status = 404 => last.exc.cls = "OllamaModelNotFoundError"
        /\ last.reply.status # 404 => last.exc.cls = "OllamaError"

\* C9: list_models fails with OllamaConnectionError when the host is
\* unreachable, and with an OllamaError when the catalog request is answered
\* with a failure status.
C9_ListModelsErrorsAreTyped ==
    last.op = "list_models" =>
        /\ last.reply.kind = "connect_error" =>
              last.kind = "raise" /\ last.exc.cls = "OllamaConnectionError"
        /\ (last.reply.kind = "http" /\ last.reply.status \notin 200..299) =>
              last.kind = "raise" /\ last.exc.cls \in OllamaErrorClasses

\* C10: a request of generate (either mode) or list_models that times out
\* fails with the generic OllamaError.
C10_TimeoutIsOllamaError ==
    (last.op \in {"generate", "anext", "list_models"}
        /\ (last.reply.kind = "timeout" \/ last.exc.cls = "httpx.TimeoutException")) =>
        last.kind = "raise" /\ last.exc.cls = "OllamaError"

\* C11: model_exists returns false, and never raises, whenever the catalog
\* fetch fails: the host is unreachable, the catalog request is answered
\* with a failure status, or it times out.
C11_ModelExistsNeverRaises ==
    (last.op = "model_exists"
        /\ \/ last.reply.kind \in {"connect_error", "timeout"}
           \/ last.reply.kind = "http" /\ last.reply.status \notin 200..299) =>
        last.kind = "return" /\ last.value = FALSE

\* The name with its ":tag" suffix removed.
BareName(name) == Split(name)[1]

\* The names of the entries of a fetched catalog that carry one.
EntryNames(data) ==
    IF "models" \in DOMAIN data
    THEN {data["models"][i]["name"] :
            i \in {j \in DOMAIN data["models"] : "name" \in DOMAIN data["models"][j]}}
    ELSE {}

\* The name a model_exists call asks about.
AskedName == IF last.arg_model = None THEN DefaultModel ELSE last.arg_model

\* C12: for a catalog fetched successfully, model_exists(n) returns true
\* exactly when some entry's name is n, or is n once the entry's tag is
\* removed, or agrees with n once both tags are removed; it returns false
\* when no entry matches by full name or by bare name.
C12_ModelExistsMatches ==
    (last.op = "model_exists" /\ last.reply.kind = "http"
        /\ last.reply.status \in 200..299 /\ last.reply.json_ok) =>
        /\ last.kind = "return"
        /\ last.value = (\E e \in EntryNames(last.reply.data) :
                            \/ e = AskedName
                            \/ BareName(e) = AskedName
                            \/ BareName(e) = BareName(AskedName))

\* model_exists("llama3") answered true against a catalog whose only entry
\* is "llama3:latest".
C12_Witness ==
    /\ last.op = "model_exists" /\ last.arg_model = "llama3"
    /\ last.reply.kind = "http" /\ last.reply.status = 200 /\ last.reply.json_ok
    /\ EntryNames(last.reply.data) = {"llama3:latest"}
    /\ last.kind = "return" /\ last.value = TRUE

\* A chat request body: the system prompt carries the three context values
\* and the user prompt is the message itself.
ChatPromptCarries(payload, p) ==
    /\ Contains(payload["system"], os_context)
    /\ Contains(payload["system"], shell)
    /\ Contains(payload["system"], p)
    /\ \E message \in Inputs : payload["prompt"] = <<message>>

\* C13: for every persona, the request of engine.chat(message) carries a
\* system prompt into which os_context, shell and the current persona's
\* string value were substituted, and the message unchanged as the user
\* prompt; a streamed chat does so with the persona it was called under.
C13_ChatSubstitutesContext ==
    /\ (last.op = "engine.chat" /\ "system" \in DOMAIN last.payload) =>
          ChatPromptCarries(last.payload, persona)
    /\ (last.op = "anext" /\ gen.op = "engine.chat" /\ "system" \in DOMAIN last.payload) =>
          ChatPromptCarries(last.payload, gen.persona)

ExplainTemplates == {"GeneralExplainPrompt", "SecurityExplainPrompt"}

C14_SameArgumentsSameResult ==
    \A i, j \in DOMAIN formatted :
        (/\ formatted[i].tpl = formatted[j].tpl
         /\ formatted[i].input_text = formatted[j].input_text
         /\ formatted[i].kwargs = formatted[j].kwargs) =>
            formatted[i].result = formatted[j].result

C14_ExplainDependsOnInputOnly ==
    \A i, j \in DOMAIN formatted :
        (/\ formatted[i].tpl \in ExplainTemplates
         /\ formatted[i].tpl = formatted[j].tpl
         /\ formatted[i].input_text = formatted[j].input_text) =>
            formatted[i].result = formatted[j].result

C14_FormatKeepsNoState ==
    formatted' # formatted =>
        UNCHANGED <<terminal, persona, os_context, shell, client, created, live, gen, last, cli>>

C15_CliCatchesEveryFailure ==
    cli.entry # None =>
        /\ cli.escaped = NoExc
        /\ cli.pc # "crashed"
        /\ (last.kind = "raise" /\ last.reply.kind # None) =>
              cli.output = "error" /\ cli.pc = Resume(cli)

\* The last call sent a generate, explain, chat or list-models request.
WorkRequest ==
    /\ last.op \in {"engine.generate", "engine.explain", "engine.chat", "anext",
                    "list_models"}
    /\ last.reply.kind # None

\* C16: in every entry point of main.py a generate, explain, chat or
\* list-models request goes out only after a health check of the run
\* returned true; when the check returned false the entry point has printed
\* an error and goes out without a work request.
C16_HealthGatesWork ==
    cli.entry # None =>
        /\ WorkRequest => cli.healthy
        /\ (cli.pc # "health" /\ ~cli.healthy) =>
              /\ cli.pc \in {"unhealthy", "finally", "returned"}
              /\ cli.output = "error"
              /\ last.op \in {"check_health", "close"}

\* The one-shot explain command, its check passed, has sent its request
\* from inside stream_response and printed a fragment.
C16_Witness ==
    /\ cli.entry = "explain" /\ cli.healthy /\ cli.pc = "stream"
    /\ WorkRequest /\ last.op = "anext" /\ last.kind = "yield"
    /\ cli.output = "chunk"

C19_ClosedOnReturn ==
    cli.pc \in {"returned", "crashed"} =>
        client = 0 /\ live = {} /\ last.op = "close"

C19_ExitLeadsToClose ==
    cli.pc \in {"unhealthy", "finally"} ~> cli.pc \in {"returned", "crashed"}

\* C19: every run of an entry point of main.py that is on its way out (the
\* check failed, the work is done, the user quit or the input ended, an error
\* was caught, or an exception is leaving the request handling) calls
\* engine.close(), and an entry point that has returned, normally or with
\* the exception, has left its client without a handle, none live.
C19_CliAlwaysCloses ==
    /\ []C19_ClosedOnReturn
    /\ C19_ExitLeadsToClose

\* A one-shot generate whose request timed out was left with the raw
\* timeout exception, after the finally clause had released the one handle.
C19_Witness ==
    /\ cli.entry = "generate" /\ cli.pc = "crashed"
    /\ cli.escaped.cls = "httpx.TimeoutException"
    /\ created = 1 /\ client = 0 /\ live = {}
    /\ last.op = "close"

\* The SHELL value names a shell; powershell in any letter case.
HintNames(word) ==
    \E i \in DOMAIN terminal.SHELL :
        \/ terminal.SHELL[i] = word
        \/ word = "powershell" /\ terminal.SHELL[i] \in {"PowerShell", "POWERSHELL"}

C17_OneOsBucket ==
    /\ os_context \in {"Windows", "macOS", "Linux/Unix"}
    /\ os_context = "Windows" <=> terminal.system = "Windows"
    /\ os_context = "macOS" <=> terminal.system = "Darwin"

C17_ContextIsFixed == UNCHANGED <<os_context, shell>>

\* C17 as claimed: one OS bucket and one shell name, PowerShell whenever the
\* OS is Windows or the shell hint names powershell, zsh or fish when the
\* hint names them, bash otherwise; neither value ever changes.
C17_DetectionAsClaimed ==
    /\ C17_OneOsBucket
    /\ (terminal.system = "Windows" \/ HintNames("powershell")) => shell = "PowerShell"
    /\ HintNames("zsh") => shell = "zsh"
    /\ HintNames("fish") => shell = "fish"
    /\ (terminal.system # "Windows" /\ ~HintNames("powershell")
          /\ ~HintNames("zsh") /\ ~HintNames("fish")) => shell = "bash"

C17_ShellByPrecedence ==
    shell = IF HintNames("zsh") THEN "zsh"
            ELSE IF HintNames("fish") THEN "fish"
            ELSE IF terminal.system = "Windows" \/ HintNames("powershell")
            THEN "PowerShell"
            ELSE "bash"

\* C17 as amended: one OS bucket and one shell name, zsh or fish when the
\* shell hint names them (on Windows too), PowerShell when the hint names
\* neither and the OS is Windows or the hint names powershell, bash
\* otherwise; neither value changes under any engine operation.
C17_DetectionByPrecedence ==
    /\ [](C17_OneOsBucket /\ C17_ShellByPrecedence)
    /\ [][C17_ContextIsFixed]_vars

\* An engine built on Windows under zsh says zsh, and still does after a
\* persona switch and a request.
C17_Witness ==
    /\ terminal.system = "Windows" /\ HintNames("zsh")
    /\ os_context = "Windows" /\ shell = "zsh"
    /\ persona = "security"
    /\ last.op = "engine.generate" /\ last.reply.kind = "http"

\* C18: whatever the persona and the engine operation, the system prompt of
\* a request holds no placeholder left as it was: none of {os_context},
\* {shell}, {persona}.
C18_NoPlaceholderSent ==
    "system" \in DOMAIN last.payload =>
        \A i \in DOMAIN last.payload["system"] :
            last.payload["system"][i] \notin {"{os_context}", "{shell}", "{persona}"}

\* The step is a call that asked for a stream: client.generate(stream=True)
\* or one of the engine's three operations with stream=True.
StreamCallStep ==
    /\ last'.op \in EngineOps \cup {"generate"}
    /\ gen'.state = "created"
    /\ last'.payload = NoPayload

C20_CallTouchesNothing ==
    StreamCallStep =>
        /\ UNCHANGED <<client, created, live>>
        /\ last'.kind = "return" /\ last'.value = "async_generator"
        /\ last'.handle = 0 /\ last'.reply.kind = None

C20_FirstAdvanceSends ==
    (gen.state = "created" /\ last'.op = "anext") =>
        /\ last'.handle = client' /\ client' \in live'
        /\ last'.reply.kind # None
        /\ last'.payload["stream"] = TRUE
        /\ gen'.handle = client'

C20_NothingSentBeforeAdvance ==
    gen.state = "created" =>
        gen.handle = 0 /\ gen.payload = NoPayload /\ gen.received = <<>>

C20_StreamFailsAtConsumption ==
    ("stream" \in DOMAIN last.payload /\ last.payload["stream"] = TRUE) =>
        last.op = "anext"

\* C20: a call that asks for a stream, of the client or through the
\* engine, creates no handle, sends no request and raises nothing; the
\* handle is obtained and the request sent when the consumer first advances
\* the sequence, so every streaming request, and with it every connection
\* or HTTP failure of one, belongs to an advance and never to the call.
C20_StreamingIsLazy ==
    /\ [](C20_NothingSentBeforeAdvance /\ C20_StreamFailsAtConsumption)
    /\ [][C20_CallTouchesNothing /\ C20_FirstAdvanceSends]_vars

\* engine.chat returned a stream while the client had no handle; the first
\* advance created the handle and failed with the connection error.
C20_Witness ==
    /\ gen.op = "engine.chat" /\ gen.state = "failed"
    /\ created = 1 /\ gen.handle = 1
    /\ last.op = "anext" /\ last.kind = "raise"
    /\ last.exc.cls = "OllamaConnectionError"
    /\ last.payload["stream"] = TRUE

\* C21: with tasks interleaved at await points only, no request is issued
\* on a handle that close() has released: an operation that starts while
\* close() is suspended releasing the handle does not obtain that handle.
C21_NoRequestOnReleasedHandle ==
    (last.handle # 0 /\ last.reply.kind # None) =>
        /\ last.reply.kind # "closed"
        /\ last.exc.cls # "RuntimeError"

====
